---- MODULE Spec2Model ----
(***************************************************************************)
(* Mesh-Maker: the media-generation request/poll pipeline.                 *)
(*                                                                         *)
(* The model follows src/App.tsx (the three handlers handleGenerate,       *)
(* handleEdit and handleRotate3D, the PURGE button, the history            *)
(* persistence effect) and src/unnamed/part_001 (the service module the    *)
(* handlers import: generateWireframeImage, editWireframeImage,            *)
(* generateRotatingVideo).  One action is one run of the code between two  *)
(* awaits: JavaScript runs it without interleaving.                        *)
(*                                                                         *)
(* A string is a sequence of chunks, each chunk a piece of text.  The      *)
(* characters the code looks for ("?", ",") are chunks of their own, so    *)
(* that includes() and split() are computed, not assumed.                  *)
(*                                                                         *)
(* The view state (activeMode, prompt, editPrompt, selectedImageForEdit,   *)
(* genReferenceImage) is not state of the pipeline: the values a handler   *)
(* reads from it when the user submits are the inputs of that action.      *)
(*                                                                         *)
(* Record constructors list their fields in the order in which the field   *)
(* names first occur in this module, the order TLC normalises records to.  *)
(***************************************************************************)
EXTENDS Integers, Sequences, FiniteSets, TLC

\* ------------------------------------------------------------------ bounds
\* Handler invocations that may be in flight at once.
MaxTasks == 2
\* Assets (getUUID ids) created in one run.
MaxAssets == 2
\* Candidates of an image response and content parts of a candidate, in the
\* runs of one service call (SpecImage) and in the runs of the application.
MaxCandidates == 2
MaxParts == 2
AppCandidates == 1
AppParts == 1
\* Handles the upstream may answer with done = false, per video request.
MaxPolls == 2
\* Chunks of a download URI, in the runs of one video request (SpecVideo)
\* and in the runs of the application.
MaxUriLen == 3
AppUriLen == 1

\* --------------------------------------------------------------- constants
\* setTimeout(resolve, 10000)
POLL_INTERVAL_MS == 10000

Tasks == 1 .. MaxTasks

\* GenerationConfig (types.ts)
AspectRatios == {"1:1", "3:4", "4:3", "9:16", "16:9"}
Models == {"gemini-2.5-flash-image", "gemini-3-pro-image-preview"}
Qualities == {"1K"}
PRO_IMAGE_MODEL == "gemini-3-pro-image-preview"
FLASH_IMAGE_MODEL == "gemini-2.5-flash-image"
VEO_MODEL == "veo-3.1-fast-generate-preview"

SYSTEM_PROMPT_REQUIREMENTS ==
    << "CORE AESTHETIC REQUIREMENTS:",
       "1. Geometric Wireframe Mesh",
       "2. Color Palette",
       "3. Retro-Futuristic Style",
       "4. Background",
       "5. No Interface Elements" >>

\* ------------------------------------------------------------ string tools
Range(s) == { s[i] : i \in 1 .. Len(s) }

\* String.prototype.includes(c), c one of the separator chunks.
Includes(s, c) == c \in Range(s)

\* s.split(',')[1]: the text between the first and the second comma;
\* undefined (here: defined |-> FALSE) when s holds no comma.
FirstIndexOf(s, c, from) ==
    IF \E i \in from .. Len(s) : s[i] = c
    THEN CHOOSE i \in from .. Len(s) : s[i] = c /\ \A j \in from .. i - 1 : s[j] # c
    ELSE 0

SplitComma1(s) ==
    LET a == FirstIndexOf(s, ",", 1)
        b == IF a = 0 THEN 0 ELSE FirstIndexOf(s, ",", a + 1)
    IN  IF a = 0 THEN [defined |-> FALSE, value |-> << >>]
        ELSE [defined |-> TRUE,
              value |-> SubSeq(s, a + 1, IF b = 0 THEN Len(s) ELSE b - 1)]

\* base64Image.split(',')[1] || base64Image
Base64Of(s) ==
    LET x == SplitComma1(s)
    IN  IF x.defined /\ x.value # << >> THEN x.value ELSE s

\* `data:image/png;base64,${data}`
DATA_URL_PREFIX == << "data:image/png;base64", "," >>
DataUrl(data) == DATA_URL_PREFIX \o data

\* prompt.trim(): blank chunks at both ends removed.
Blank == {" "}
RECURSIVE TrimLeft(_)
TrimLeft(s) ==
    IF s # << >> /\ Head(s) \in Blank THEN TrimLeft(Tail(s)) ELSE s
RECURSIVE TrimRight(_)
TrimRight(s) ==
    IF s # << >> /\ s[Len(s)] \in Blank THEN TrimRight(SubSeq(s, 1, Len(s) - 1)) ELSE s
Trim(s) == TrimRight(TrimLeft(s))


\* ------------------------------------------------------- outcomes, errors
\* What an async service function settles with: the value it returns or the
\* Error it throws (its message).
Return(v) == [value |-> v, settled |-> TRUE, ok |-> TRUE, error |-> << >>]
Throw(m) == [value |-> << >>, settled |-> TRUE, ok |-> FALSE, error |-> m]
Pending == [value |-> << >>, settled |-> FALSE, ok |-> FALSE, error |-> << >>]

NO_CANDIDATES == << "No candidates generated." >>
NO_IMAGE_DATA == << "No image data returned in parts." >>
NO_CANDIDATES_EDIT == << "No candidates generated for edit." >>
NO_IMAGE_DATA_EDIT == << "No edited image data returned." >>
NO_URI_RETURNED == << "Video generation completed but no URI returned." >>
DownloadFailedMsg(status) == << "Video download failed with status: ", ToString(status) >>
\* candidates[0].content.parts with content undefined: the engine's TypeError.
TYPE_ERROR_PARTS == << "Cannot read properties of undefined (reading 'parts')" >>
ENTITY_NOT_FOUND == "Requested entity was not found"

\* Messages of the errors the SDK, fetch() or blob() reject with.
UpstreamMessages ==
    { << "got status: 404. ", ENTITY_NOT_FOUND, "." >>,
      << "got status: 503. The model is overloaded." >> }

\* ------------------------------------------------ the image response shape
TextPart(t) == [text |-> t]
InlinePart(d) == [inlineData |-> [data |-> d, mimeType |-> "image/png"]]

\* The payload of the inline part at place p of candidate c: every part
\* carries its own payload, so the part a result came from is named by it.
Payload(c, p) == << "b64_" \o ToString(c) \o "_" \o ToString(p) >>

PartKinds == {"text", "inline"}
PartAt(kind, c, p) ==
    IF kind = "inline" THEN InlinePart(Payload(c, p)) ELSE TextPart(<< "caption" >>)

PartKindLists(np) == UNION { [1 .. n -> PartKinds] : n \in 0 .. np }

\* A candidate: with content and its parts, with content but no parts field,
\* or with no content at all (a blocked generation).
CandidateShapes(np) ==
    { [content |-> TRUE, parts |-> TRUE, kinds |-> k] : k \in PartKindLists(np) }
        \cup { [content |-> TRUE, parts |-> FALSE, kinds |-> << >>],
               [content |-> FALSE, parts |-> FALSE, kinds |-> << >>] }

CandidateOf(sh, c) ==
    IF ~sh.content THEN [finishReason |-> "IMAGE_SAFETY"]
    ELSE IF ~sh.parts THEN [content |-> [role |-> "model"]]
    ELSE [content |-> [parts |-> [p \in 1 .. Len(sh.kinds) |-> PartAt(sh.kinds[p], c, p)],
                       role |-> "model"]]

CandidateLists(nc, np) ==
    UNION { { [c \in 1 .. n |-> CandidateOf(sh[c], c)] : sh \in [1 .. n -> CandidateShapes(np)] }
            : n \in 0 .. nc }

\* A response: with a candidates list, or with no candidates field.
ImageResponsesUpTo(nc, np) ==
    { [candidates |-> cs] : cs \in CandidateLists(nc, np) }
        \cup { [promptFeedback |-> "BLOCKED"] }

ImageResponses == ImageResponsesUpTo(MaxCandidates, MaxParts)
AppImageResponses == ImageResponsesUpTo(AppCandidates, AppParts)

\* ExtractImage taking the last inline part instead of the first.
ExtractImageLastPart(response, noCandidates, noImageData) ==
    LET candidates == IF "candidates" \in DOMAIN response THEN response.candidates ELSE << >>
        inl(c) == IF "content" \in DOMAIN c /\ "parts" \in DOMAIN c.content
                  THEN SelectSeq(c.content.parts, LAMBDA q : "inlineData" \in DOMAIN q)
                  ELSE << >>
    IN  IF Len(candidates) = 0 THEN Throw(noCandidates)
        ELSE IF inl(candidates[1]) = << >> THEN Throw(noImageData)
        ELSE Return(DataUrl(inl(candidates[1])[Len(inl(candidates[1]))].inlineData.data))

\* ExtractImage without the length test on candidates.
ExtractImageNoLengthTest(response, noCandidates, noImageData) ==
    LET candidates == IF "candidates" \in DOMAIN response THEN response.candidates ELSE << >>
    IN  IF Len(candidates) = 0 THEN Return(DataUrl(<< "undefined" >>))
        ELSE Throw(noImageData)

\* part_001 68-76 and 110-118: response.candidates || [], the length test,
\* then the first part of candidates[0] with a truthy inlineData.
ExtractImage(response, noCandidates, noImageData) ==
    LET candidates == IF "candidates" \in DOMAIN response THEN response.candidates ELSE << >>
    IN  IF Len(candidates) = 0 THEN Throw(noCandidates)
        ELSE IF "content" \notin DOMAIN candidates[1] THEN Throw(TYPE_ERROR_PARTS)
        ELSE LET content == candidates[1].content
                 parts == IF "parts" \in DOMAIN content THEN content.parts ELSE << >>
                 hits == { i \in 1 .. Len(parts) : "inlineData" \in DOMAIN parts[i] }
             IN  IF hits = {} THEN Throw(noImageData)
                 ELSE LET first == CHOOSE i \in hits : \A j \in hits : i <= j
                      IN  Return(DataUrl(parts[first].inlineData.data))


\* ------------------------------------------------------ outgoing requests
NoImage == << >>
REFERENCE_HINT == << "[STRUCTURAL REFERENCE ONLY]: Use the attached image as a minor hint" >>

\* MainInstruction quoting the text with its leading and trailing blanks cut.
MainInstructionTrimmed(prompt) ==
    << "INSTRUCTION: Create a brand new 3D wireframe mesh schematic of the following object: \"" >>
        \o Trim(prompt)
        \o << "\". THE TEXT DESCRIPTION ABOVE IS THE PRIMARY SPECIFICATION. The final output must be a unique geometric vector-style rendering." >>
        \o SYSTEM_PROMPT_REQUIREMENTS

\* part_001 31-36
MainInstruction(prompt) ==
    << "INSTRUCTION: Create a brand new 3D wireframe mesh schematic of the following object: \"" >>
        \o prompt
        \o << "\". THE TEXT DESCRIPTION ABOVE IS THE PRIMARY SPECIFICATION. The final output must be a unique geometric vector-style rendering." >>
        \o SYSTEM_PROMPT_REQUIREMENTS

\* ImageConfig passing imageSize for every model.
ImageConfigAlwaysSize(config) ==
    [aspectRatio |-> config.aspectRatio, imageSize |-> config.quality]

\* part_001 60-65: the generation options of a create-image request.
ImageConfig(config) ==
    IF config.model = PRO_IMAGE_MODEL
    THEN [aspectRatio |-> config.aspectRatio, imageSize |-> config.quality]
    ELSE [aspectRatio |-> config.aspectRatio]

\* part_001 29-66: the argument of ai.models.generateContent in
\* generateWireframeImage.
ImageRequest(prompt, config, referenceImageBase64) ==
    [config |-> [imageConfig |-> ImageConfig(config)],
     model |-> config.model,
     contents |->
        [parts |->
            (IF referenceImageBase64 # NoImage
             THEN << TextPart(REFERENCE_HINT), InlinePart(Base64Of(referenceImageBase64)) >>
             ELSE << >>)
            \o << TextPart(MainInstruction(prompt)) >>]]

\* part_001 91-108: the argument of ai.models.generateContent in
\* editWireframeImage.  The config parameter is not read.
EditRequest(base64Image, instruction, config) ==
    [model |-> FLASH_IMAGE_MODEL,
     contents |->
        [parts |->
            << InlinePart(Base64Of(base64Image)),
               TextPart(<< "Apply this modification to the existing wireframe schematic: " >>
                        \o instruction
                        \o << ". Maintain mesh aesthetic. " >>
                        \o SYSTEM_PROMPT_REQUIREMENTS) >>]]

VIDEO_PROMPT ==
    << "A smooth 360-degree cinematic rotation of this 3D wireframe mesh object. The camera orbits the object. Smooth motion. SILENT VIDEO, NO AUDIO TRACK." >>

\* part_001 131-149: the argument of ai.models.generateVideos.
VideoRequest(base64Image, aspectRatio) ==
    [prompt |-> VIDEO_PROMPT,
     config |-> [aspectRatio |-> aspectRatio, numberOfVideos |-> 1, resolution |-> "720p"],
     model |-> VEO_MODEL,
     image |-> [mimeType |-> "image/png", imageBytes |-> Base64Of(base64Image)]]

\* veoRatio passing the configured ratio through.
veoRatioPassThrough(config) == config.aspectRatio

\* App.tsx 195
veoRatio(config) ==
    IF config.aspectRatio = "9:16" THEN "9:16" ELSE "16:9"

\* ------------------------------------------------- the video operation
UriChunks == {"https://host/video", "?", "token=abc"}
UrisUpTo(len) == UNION { [1 .. n -> UriChunks] : n \in 0 .. len }
Uris == UrisUpTo(MaxUriLen)
AppUris == UrisUpTo(AppUriLen)

PendingOperation == [done |-> FALSE, name |-> "operations/veo"]

\* A finished operation whose payload exposes no download URI: no response,
\* no generatedVideos, an empty list, an entry with no video, a video with no
\* uri.
DoneWithoutUri ==
    { [done |-> TRUE, name |-> "operations/veo"],
      [response |-> [raiMediaFilteredCount |-> 1], done |-> TRUE],
      [response |-> [generatedVideos |-> << >>], done |-> TRUE],
      [response |-> [generatedVideos |-> << [filtered |-> TRUE] >>], done |-> TRUE],
      [response |-> [generatedVideos |-> << [video |-> [mimeType |-> "video/mp4"]] >>],
       done |-> TRUE] }

DoneWithUri(u) ==
    [response |-> [generatedVideos |-> << [video |-> [mimeType |-> "video/mp4", uri |-> u]] >>],
     done |-> TRUE]

\* part_001 156: operation.response?.generatedVideos?.[0]?.video?.uri
DownloadLink(operation) ==
    IF "response" \notin DOMAIN operation THEN [defined |-> FALSE, value |-> << >>]
    ELSE IF "generatedVideos" \notin DOMAIN operation.response
    THEN [defined |-> FALSE, value |-> << >>]
    ELSE IF Len(operation.response.generatedVideos) = 0
    THEN [defined |-> FALSE, value |-> << >>]
    ELSE IF "video" \notin DOMAIN operation.response.generatedVideos[1]
    THEN [defined |-> FALSE, value |-> << >>]
    ELSE IF "uri" \notin DOMAIN operation.response.generatedVideos[1].video
    THEN [defined |-> FALSE, value |-> << >>]
    ELSE [defined |-> TRUE, value |-> operation.response.generatedVideos[1].video.uri]

\* part_001 157: !downloadLink (undefined or the empty string)
LinkMissing(link) == ~link.defined \/ link.value = << >>

\* FetchUrl joining with "?" whatever the link holds.
FetchUrlAlwaysQuestion(downloadLink, apiKey) ==
    downloadLink \o << "?", "key=" >> \o apiKey

\* part_001 159-161
FetchUrl(downloadLink, apiKey) ==
    IF Includes(downloadLink, "?")
    THEN downloadLink \o << "&", "key=" >> \o apiKey
    ELSE downloadLink \o << "?", "key=" >> \o apiKey

\* Response.ok
HttpStatuses == {200, 404, 500}
ResponseOk(status) == status >= 200 /\ status <= 299


\* ------------------------------------------------------------------ state
VARIABLES
    history,      \* App state: GeneratedImage[], newest first
    storage,      \* localStorage['wireframe_history']; << >>: no such key
    loading,      \* App state: the overlay is shown
    loadingMsg,   \* App state
    tasks,        \* the handler invocations, one record per slot
    nextId,       \* ids getUUID has handed out, plus one
    blobs,        \* object URLs created and not revoked
    aistudio      \* window.aistudio is defined

vars == << history, storage, loading, loadingMsg, tasks, nextId, blobs, aistudio >>

NoMsg == "undefined"
NoRequest == [model |-> "none"]

\* GenerationConfig (types.ts 17-21); App.tsx 36-40 and the selects of the
\* generate form (320, 328) set aspectRatio and model, never quality.
Configs == [aspectRatio : AspectRatios, quality : Qualities, model : Models]
DefaultConfig == [aspectRatio |-> "1:1", quality |-> "1K", model |-> FLASH_IMAGE_MODEL]

\* process.env.API_KEY as getApiKey reads it at a call; << >>: unset or empty.
ApiKeys == { << >>, << "K" >> }

\* A handler invocation: where it is suspended and the locals of its closure.
\* A finished invocation keeps what it last received and how it ended until
\* its slot is taken again.
IdleTask ==
    [text |-> << >>,          \* prompt / editPrompt of the closure
     kind |-> "none",
     image |-> NoImage,       \* genReferenceImage / selectedImageForEdit / image.url
     apiKey |-> << >>,        \* apiKey of generateRotatingVideo
     pc |-> "idle",
     cfg |-> DefaultConfig,   \* config of the closure
     imageId |-> 0,           \* image.id (handleRotate3D)
     request |-> NoRequest,   \* the generation request awaited
     submits |-> 0,           \* generateContent / generateVideos calls
     hasKeyCalls |-> 0, openKeyCalls |-> 0,
     pending |-> 0,           \* handles observed with done = false
     polls |-> 0,             \* getVideosOperation calls
     waits |-> 0, slept |-> 0,\* timers awaited, and their total in ms
     fetchUrl |-> << >>, fetches |-> 0,
     recv |-> Pending,        \* what the last awaited call settled with
     outcome |-> Pending,     \* what the service function settled with
     alert |-> << >>]         \* the message alert() showed

\* App.tsx 235 and LoadingOverlay.tsx 31: the overlay covers the page while
\* loading is true.
UserCanAct == ~loading

InFlight(t) == tasks[t].pc \notin {"idle", "done"}
\* The invocations suspended at the await named pc.
Awaiting(pc) == { t \in Tasks : tasks[t].pc = pc }
FreeSlots == { t \in Tasks : ~InFlight(t) }
\* Slots are interchangeable: a new invocation takes the lowest free one.
FreeSlot == CHOOSE t \in FreeSlots : \A u \in FreeSlots : t <= u

\* Ids the image invocations in flight may still ask for.
IdsClaimed ==
    Cardinality({ t \in Tasks : InFlight(t) /\ tasks[t].kind \in {"generate", "edit"} })

\* App.tsx 61-69: the effect that runs after history changed.
Persist(h, stored) == IF Len(h) > 0 THEN h ELSE stored

Init ==
    /\ history = << >>
    /\ storage = << >>
    /\ loading = FALSE
    /\ loadingMsg = NoMsg
    /\ tasks = [t \in Tasks |-> IdleTask]
    /\ nextId = 1
    /\ blobs = {}
    /\ aistudio \in BOOLEAN

\* ------------------------------------------------------------ user inputs
UserTexts == { << >>, << " " >>, << "cube" >>, << " ", "cube" >> }
UPLOADED_IMAGE == << "data:image/png;base64", ",", "UPLOAD" >>
ReferenceImages == { NoImage, UPLOADED_IMAGE }

\* App.tsx 431: PURGE, confirmed.
Purge(id) ==
    /\ UserCanAct
    /\ \E i \in 1 .. Len(history) : history[i].id = id
    /\ history' = SelectSeq(history, LAMBDA img : img.id # id)
    /\ storage' = Persist(history', storage)
    /\ UNCHANGED << loading, loadingMsg, tasks, nextId, blobs, aistudio >>

\* ------------------------------------------------- the handlers' pieces
\* App.tsx 128 with part_001 26-55: generateWireframeImage is called and
\* runs to its await of generateContent.
AwaitingImage(task) ==
    [task EXCEPT !.pc = "imageCall",
                 !.request = ImageRequest(task.text, task.cfg, task.image),
                 !.submits = @ + 1]

\* App.tsx 161 with part_001 88-95: the same for editWireframeImage.
AwaitingEdit(task) ==
    [task EXCEPT !.pc = "imageCall",
                 !.request = EditRequest(task.image, task.text, task.cfg),
                 !.submits = @ + 1]

\* App.tsx 195-196 with part_001 129-137: the same for generateRotatingVideo.
AwaitingVideo(task, key) ==
    [task EXCEPT !.pc = "videoCall",
                 !.apiKey = key,
                 !.request = VideoRequest(task.image, veoRatio(task.cfg)),
                 !.submits = @ + 1]

\* App.tsx 125-128 and 192-196: from setLoading(true) to the await of the
\* generation call.
Submit(t, task) ==
    /\ loading' = TRUE
    /\ IF task.kind = "generate"
       THEN /\ loadingMsg' = "ANALYZING GEOMETRY & REFERENCE..."
            /\ tasks' = [tasks EXCEPT ![t] = AwaitingImage(task)]
       ELSE /\ loadingMsg' = "SYNTHESIZING 3D MOTION (Estimated: 2-3 mins)"
            /\ \E key \in ApiKeys : tasks' = [tasks EXCEPT ![t] = AwaitingVideo(task, key)]
    /\ UNCHANGED << history, storage, nextId, blobs, aistudio >>

\* App.tsx 114-122 and 182-190: the gate, entered.  Without window.aistudio
\* both optional calls yield undefined and the handler runs on to Submit.
EnterGate(t, task) ==
    IF aistudio
    THEN /\ tasks' = [tasks EXCEPT ![t] =
                [task EXCEPT !.pc = "gateHasKey", !.hasKeyCalls = @ + 1]]
         /\ UNCHANGED << history, storage, loading, loadingMsg, nextId, blobs, aistudio >>
    ELSE Submit(t, task)

\* The invocation is over: its closure is gone.
Finished(task) ==
    [task EXCEPT !.pc = "done", !.cfg = DefaultConfig, !.text = << >>,
                 !.image = NoImage, !.request = NoRequest]

\* App.tsx 149-152 and 206-209 (finally), 175-177 for handleEdit.
Finally(t, task) ==
    /\ loading' = FALSE
    /\ loadingMsg' = IF task.kind = "edit" THEN loadingMsg ELSE NoMsg
    /\ tasks' = [tasks EXCEPT ![t] = Finished(task)]

API_KEY_ALERT(kind) ==
    IF kind = "generate"
    THEN << "API key error. Please ensure you have selected a valid API key from a paid GCP project." >>
    ELSE << "API key error. Please select a valid paid project key." >>
FAILED_PREFIX(kind) ==
    IF kind = "generate" THEN << "Generation failed: " >> ELSE << "3D Rotation failed: " >>

\* Catch showing no message.
CatchNoAlert(t, task, errorMsg) ==
    /\ Finally(t, task)
    /\ UNCHANGED << history, storage, nextId, blobs >>

\* App.tsx 140-152, 173-177 and 198-209: the catch block and what follows.
Catch(t, task, errorMsg) ==
    /\ IF task.kind = "edit"
       THEN Finally(t, [task EXCEPT !.alert = << "Edit failed." >>])
       ELSE IF Includes(errorMsg, ENTITY_NOT_FOUND)
       THEN IF aistudio
            THEN /\ tasks' = [tasks EXCEPT ![t] =
                        [task EXCEPT !.pc = "reauth", !.alert = API_KEY_ALERT(task.kind),
                                     !.openKeyCalls = @ + 1]]
                 /\ UNCHANGED << loading, loadingMsg >>
            ELSE Finally(t, [task EXCEPT !.alert = API_KEY_ALERT(task.kind)])
       ELSE Finally(t, [task EXCEPT !.alert = FAILED_PREFIX(task.kind) \o errorMsg])
    /\ UNCHANGED << history, storage, nextId, blobs >>

\* App.tsx 129-135 and 162-168
NewImage(task, imageUrl) ==
    [prompt |-> task.text, id |-> nextId, url |-> imageUrl, videoUrl |-> << >>,
     type |-> IF task.kind = "generate" THEN "generation" ELSE "edit"]

\* App.tsx 136 and 169: setHistory(prev => [newImage, ...prev])
KeepImage(h, newImage) == << newImage >> \o h

\* The generateContent call of t settled with reply: the service function
\* settles with out, and the handler runs to its end or to its next await.
ImageSettled(t, reply, out) ==
    LET task == [tasks[t] EXCEPT !.recv = reply, !.outcome = out]
    IN  /\ IF out.ok
           THEN /\ history' = KeepImage(history, NewImage(task, out.value))
                /\ storage' = Persist(history', storage)
                /\ nextId' = nextId + 1
                /\ Finally(t, task)
                /\ UNCHANGED blobs
           ELSE Catch(t, task, out.error)
        /\ UNCHANGED aistudio

\* ---------------------------------------------------------- handleGenerate
\* App.tsx 108-128: the submit of the generate form, up to the first await
\* that suspends.
handleGenerate(config, prompt, genReferenceImage) ==
    /\ UserCanAct
    /\ FreeSlots # {}
    /\ nextId + IdsClaimed <= MaxAssets
    /\ LET t == FreeSlot
           task == [IdleTask EXCEPT !.kind = "generate", !.cfg = config,
                                    !.text = prompt, !.image = genReferenceImage]
       IN  IF Trim(prompt) = << >> THEN UNCHANGED vars
           ELSE IF config.model = PRO_IMAGE_MODEL THEN EnterGate(t, task)
           ELSE Submit(t, task)

\* part_001 55-81 with App.tsx 128-152: the generateContent call of
\* generateWireframeImage settles.
generateWireframeImage(t, reply) ==
    /\ tasks[t].pc = "imageCall"
    /\ tasks[t].kind = "generate"
    /\ ImageSettled(t, reply,
                    IF reply.ok THEN ExtractImage(reply.value, NO_CANDIDATES, NO_IMAGE_DATA)
                    ELSE Throw(reply.error))

\* -------------------------------------------------------------- handleEdit
EditSources == { NoImage, UPLOADED_IMAGE } \cup { history[i].url : i \in 1 .. Len(history) }

\* App.tsx 155-161 with part_001 88-95.
handleEdit(config, selectedImageForEdit, editPrompt) ==
    /\ UserCanAct
    /\ FreeSlots # {}
    /\ nextId + IdsClaimed <= MaxAssets
    /\ LET t == FreeSlot
           task == [IdleTask EXCEPT !.kind = "edit", !.cfg = config,
                                    !.text = editPrompt, !.image = selectedImageForEdit]
       IN  IF selectedImageForEdit = NoImage \/ Trim(editPrompt) = << >>
           THEN UNCHANGED vars
           ELSE /\ loading' = TRUE
                /\ tasks' = [tasks EXCEPT ![t] = AwaitingEdit(task)]
                /\ UNCHANGED << history, storage, loadingMsg, nextId, blobs, aistudio >>

\* part_001 95-123 with App.tsx 161-177.
editWireframeImage(t, reply) ==
    /\ tasks[t].pc = "imageCall"
    /\ tasks[t].kind = "edit"
    /\ ImageSettled(t, reply,
                    IF reply.ok
                    THEN ExtractImage(reply.value, NO_CANDIDATES_EDIT, NO_IMAGE_DATA_EDIT)
                    ELSE Throw(reply.error))

\* ---------------------------------------------------------------- the gate
\* HasKeyReturns opening the key selection unless the query rejected.
HasKeyReturnsOpensOnTrue(t, answer) ==
    /\ tasks[t].pc = "gateHasKey"
    /\ IF answer \in {"true", "false"}
       THEN /\ tasks' = [tasks EXCEPT ![t] =
                   [@ EXCEPT !.pc = "gateOpenKey", !.openKeyCalls = @ + 1]]
            /\ UNCHANGED << history, storage, loading, loadingMsg, nextId, blobs, aistudio >>
       ELSE Submit(t, tasks[t])

\* App.tsx 115-119 and 183-187: hasSelectedApiKey settled.
HasKeyReturns(t, answer) ==
    /\ tasks[t].pc = "gateHasKey"
    /\ IF answer = "false"
       THEN /\ tasks' = [tasks EXCEPT ![t] =
                   [@ EXCEPT !.pc = "gateOpenKey", !.openKeyCalls = @ + 1]]
            /\ UNCHANGED << history, storage, loading, loadingMsg, nextId, blobs, aistudio >>
       ELSE Submit(t, tasks[t])

\* OpenKeyReturns ending the action when openSelectKey rejects.
OpenKeyReturnsRejectEnds(t, answer) ==
    /\ tasks[t].pc = "gateOpenKey"
    /\ answer \in {"resolve", "reject"}
    /\ IF answer = "reject"
       THEN /\ Finally(t, tasks[t])
            /\ UNCHANGED << history, storage, nextId, blobs, aistudio >>
       ELSE Submit(t, tasks[t])

\* App.tsx 117-122 and 185-190: openSelectKey settled, either way.
OpenKeyReturns(t, answer) ==
    /\ tasks[t].pc = "gateOpenKey"
    /\ answer \in {"resolve", "reject"}
    /\ Submit(t, tasks[t])

\* App.tsx 145 and 202: the openSelectKey of the catch block settled.
ReauthReturns(t, answer) ==
    /\ tasks[t].pc = "reauth"
    /\ answer \in {"resolve", "reject"}
    /\ Finally(t, tasks[t])
    /\ UNCHANGED << history, storage, nextId, blobs, aistudio >>

\* ---------------------------------------------------------- handleRotate3D
\* App.tsx 180-190; the button shows while the image has no videoUrl
\* (App.tsx 419).
handleRotate3D(config, i) ==
    /\ UserCanAct
    /\ FreeSlots # {}
    /\ i \in 1 .. Len(history)
    /\ history[i].videoUrl = << >>
    /\ EnterGate(FreeSlot,
                 [IdleTask EXCEPT !.kind = "rotate", !.cfg = config,
                                  !.image = history[i].url, !.imageId = history[i].id])

\* Attach putting the URL on the first entry of the list, whatever its id.
AttachFirstEntry(h, id, videoUrl) ==
    [k \in 1 .. Len(h) |-> IF k = 1 THEN [h[k] EXCEPT !.videoUrl = videoUrl] ELSE h[k]]

\* App.tsx 197: setHistory(prev => prev.map(...))
Attach(h, id, videoUrl) ==
    [k \in 1 .. Len(h) |-> IF h[k].id = id THEN [h[k] EXCEPT !.videoUrl = videoUrl] ELSE h[k]]

\* part_001 151: while (!operation.done)
IsDone(operation) == operation.done

\* AfterOperation issuing the fetch before the link is tested.
AfterOperationFetchFirst(task, operation) ==
    LET link == DownloadLink(operation)
        seen == [task EXCEPT !.cfg = DefaultConfig, !.request = NoRequest]
    IN  IF ~IsDone(operation)
        THEN [seen EXCEPT !.pc = "pollWait", !.pending = @ + 1]
        ELSE IF LinkMissing(link)
        THEN [seen EXCEPT !.fetches = @ + 1, !.outcome = Throw(NO_URI_RETURNED)]
        ELSE [seen EXCEPT !.pc = "download", !.fetches = @ + 1,
                          !.fetchUrl = FetchUrl(link.value, task.apiKey)]

\* AfterOperation giving up at the second handle that is not done.
AfterOperationGivesUp(task, operation) ==
    LET link == DownloadLink(operation)
        seen == [task EXCEPT !.cfg = DefaultConfig, !.request = NoRequest]
    IN  IF ~IsDone(operation)
        THEN IF task.pending >= 1
             THEN [seen EXCEPT !.outcome = Throw(<< "Video generation timed out." >>)]
             ELSE [seen EXCEPT !.pc = "pollWait", !.pending = @ + 1]
        ELSE IF LinkMissing(link)
        THEN [seen EXCEPT !.outcome = Throw(NO_URI_RETURNED)]
        ELSE [seen EXCEPT !.pc = "download", !.fetches = @ + 1,
                          !.fetchUrl = FetchUrl(link.value, task.apiKey)]

\* part_001 151-163: an operation handle arrived, from generateVideos or from
\* getVideosOperation: the loop test, then the link, the URL and the fetch.
AfterOperation(task, operation) ==
    LET link == DownloadLink(operation)
        seen == [task EXCEPT !.cfg = DefaultConfig, !.request = NoRequest]
    IN  IF ~IsDone(operation)
        THEN [seen EXCEPT !.pc = "pollWait", !.pending = @ + 1]
        ELSE IF LinkMissing(link)
        THEN [seen EXCEPT !.outcome = Throw(NO_URI_RETURNED)]
        ELSE [seen EXCEPT !.pc = "download", !.fetches = @ + 1,
                          !.fetchUrl = FetchUrl(link.value, task.apiKey)]

\* AfterTimer re-fetching with no timer awaited.
AfterTimerNoWait(task) ==
    [task EXCEPT !.pc = "pollFetch", !.polls = @ + 1]

\* part_001 152-153: the timer fired; the status is re-fetched.
AfterTimer(task) ==
    [task EXCEPT !.pc = "pollFetch", !.waits = @ + 1, !.slept = @ + POLL_INTERVAL_MS,
                 !.polls = @ + 1]

\* AfterFetch reading the body whatever the status.
AfterFetchIgnoreStatus(task, status) ==
    [task EXCEPT !.pc = "blob"]

\* AfterFetch going back to the wait of the poll on a failed download.
AfterFetchPollsAgain(task, status) ==
    IF ~ResponseOk(status)
    THEN [task EXCEPT !.pc = "pollWait"]
    ELSE [task EXCEPT !.pc = "blob"]

\* part_001 164-166: the fetch answered with a status; blob() is awaited.
AfterFetch(task, status) ==
    IF ~ResponseOk(status)
    THEN [task EXCEPT !.outcome = Throw(DownloadFailedMsg(status))]
    ELSE [task EXCEPT !.pc = "blob"]

\* The invocation moves on to task, or, when the service function threw
\* (part_001 168-171), to the catch block of handleRotate3D.
Continue(t, task) ==
    /\ IF task.outcome.settled
       THEN Catch(t, task, task.outcome.error)
       ELSE /\ tasks' = [tasks EXCEPT ![t] = task]
            /\ UNCHANGED << history, storage, loading, loadingMsg, nextId, blobs >>
    /\ UNCHANGED aistudio

Rejected(task, reply) == [task EXCEPT !.recv = reply, !.outcome = Throw(reply.error)]

\* part_001 137-149: generateVideos settled.
generateVideos(t, reply) ==
    /\ tasks[t].pc = "videoCall"
    /\ IF reply.ok
       THEN Continue(t, AfterOperation([tasks[t] EXCEPT !.recv = reply], reply.value))
       ELSE Continue(t, Rejected(tasks[t], reply))

\* part_001 152: the 10-second timer fired.
TimerFires(t) ==
    /\ tasks[t].pc = "pollWait"
    /\ Continue(t, AfterTimer(tasks[t]))

\* part_001 153: getVideosOperation settled.  The upstream answers
\* done = false at most MaxPolls times per request.
getVideosOperation(t, reply) ==
    /\ tasks[t].pc = "pollFetch"
    /\ (reply.ok /\ ~IsDone(reply.value)) => tasks[t].pending < MaxPolls
    /\ IF reply.ok
       THEN Continue(t, AfterOperation([tasks[t] EXCEPT !.recv = reply], reply.value))
       ELSE Continue(t, Rejected(tasks[t], reply))

\* part_001 163-164: fetch settled.
OnFetch(t, reply) ==
    /\ tasks[t].pc = "download"
    /\ IF reply.ok
       THEN Continue(t, AfterFetch([tasks[t] EXCEPT !.recv = reply], reply.value))
       ELSE Continue(t, Rejected(tasks[t], reply))

\* part_001 166-167 with App.tsx 196-197 and 206-209: response.blob()
\* settled; the object URL is created and attached to the image.
OnBlob(t, reply) ==
    /\ tasks[t].pc = "blob"
    /\ IF ~reply.ok THEN Continue(t, Rejected(tasks[t], reply))
       ELSE LET videoUrl == << "blob:", ToString(Cardinality(blobs) + 1) >>
                task == [tasks[t] EXCEPT !.recv = reply, !.outcome = Return(videoUrl)]
            IN  /\ blobs' = blobs \cup { videoUrl }
                /\ history' = Attach(history, task.imageId, videoUrl)
                /\ storage' = Persist(history', storage)
                /\ Finally(t, task)
                /\ UNCHANGED << nextId, aistudio >>

BLOB == << "video/mp4" >>

\* ------------------------------------------------------------------- Next
\* The application used one action at a time: the user submits a form or
\* clicks a rotate button when no earlier invocation is in flight.  Every
\* handler, the upstream answering from the small reply sets.
OneAtATime == \A t \in Tasks : ~InFlight(t)

Next ==
    \/ /\ OneAtATime
       /\ \E c \in Configs, p \in UserTexts, r \in ReferenceImages : handleGenerate(c, p, r)
    \/ /\ OneAtATime
       /\ \E c \in Configs, s \in EditSources, p \in UserTexts : handleEdit(c, s, p)
    \/ /\ OneAtATime
       /\ \E c \in Configs, i \in 1 .. Len(history) : handleRotate3D(c, i)
    \/ \E id \in 1 .. MaxAssets : Purge(id)
    \/ \E t \in Awaiting("gateHasKey"), answer \in {"true", "false", "reject"} : HasKeyReturns(t, answer)
    \/ \E t \in Awaiting("gateOpenKey"), answer \in {"resolve", "reject"} : OpenKeyReturns(t, answer)
    \/ \E t \in Awaiting("reauth"), answer \in {"resolve", "reject"} : ReauthReturns(t, answer)
    \/ \E t \in Awaiting("imageCall"), r \in AppImageResponses : generateWireframeImage(t, Return(r))
    \/ \E t \in Awaiting("imageCall"), m \in UpstreamMessages : generateWireframeImage(t, Throw(m))
    \/ \E t \in Awaiting("imageCall"), r \in AppImageResponses : editWireframeImage(t, Return(r))
    \/ \E t \in Awaiting("imageCall"), m \in UpstreamMessages : editWireframeImage(t, Throw(m))
    \/ \E t \in Awaiting("videoCall") : generateVideos(t, Return(PendingOperation))
    \/ \E t \in Awaiting("videoCall"), o \in DoneWithoutUri : generateVideos(t, Return(o))
    \/ \E t \in Awaiting("videoCall"), u \in AppUris : generateVideos(t, Return(DoneWithUri(u)))
    \/ \E t \in Awaiting("videoCall"), m \in UpstreamMessages : generateVideos(t, Throw(m))
    \/ \E t \in Awaiting("pollWait") : TimerFires(t)
    \/ \E t \in Awaiting("pollFetch") : getVideosOperation(t, Return(PendingOperation))
    \/ \E t \in Awaiting("pollFetch"), o \in DoneWithoutUri : getVideosOperation(t, Return(o))
    \/ \E t \in Awaiting("pollFetch"), u \in AppUris : getVideosOperation(t, Return(DoneWithUri(u)))
    \/ \E t \in Awaiting("pollFetch"), m \in UpstreamMessages : getVideosOperation(t, Throw(m))
    \/ \E t \in Awaiting("download"), status \in HttpStatuses : OnFetch(t, Return(status))
    \/ \E t \in Awaiting("download"), m \in UpstreamMessages : OnFetch(t, Throw(m))
    \/ \E t \in Awaiting("blob") : OnBlob(t, Return(BLOB))
    \/ \E t \in Awaiting("blob"), m \in UpstreamMessages : OnBlob(t, Throw(m))

Spec == Init /\ [][Next]_vars

\* ----------------------------------------------- one image request
\* The freshly loaded application and the first submit of the generate form
\* or of the edit form; the upstream answers from the large set of responses.
FirstClick == \A t \in Tasks : tasks[t].pc = "idle"

NextImage ==
    \/ /\ FirstClick
       /\ \E c \in Configs, p \in UserTexts, r \in ReferenceImages : handleGenerate(c, p, r)
    \/ /\ FirstClick
       /\ \E c \in Configs, s \in EditSources, p \in UserTexts : handleEdit(c, s, p)
    \/ \E t \in Awaiting("gateHasKey"), answer \in {"true", "false", "reject"} :
            HasKeyReturns(t, answer)
    \/ \E t \in Awaiting("gateOpenKey"), answer \in {"resolve", "reject"} :
            OpenKeyReturns(t, answer)
    \/ \E t \in Awaiting("imageCall"), r \in ImageResponses : generateWireframeImage(t, Return(r))
    \/ \E t \in Awaiting("imageCall"), m \in UpstreamMessages : generateWireframeImage(t, Throw(m))
    \/ \E t \in Awaiting("imageCall"), r \in ImageResponses : editWireframeImage(t, Return(r))
    \/ \E t \in Awaiting("imageCall"), m \in UpstreamMessages : editWireframeImage(t, Throw(m))
    \/ \E t \in Awaiting("reauth"), answer \in {"resolve", "reject"} : ReauthReturns(t, answer)

SpecImage == Init /\ [][NextImage]_vars

\* --------------------------------------------------- one video request
\* The application with one image in its history and the first click on its
\* rotate button; the upstream answers from the large set of URIs.
FirstImage ==
    [prompt |-> << "cube" >>, id |-> 1, url |-> DataUrl(Payload(1, 1)), videoUrl |-> << >>,
     type |-> "generation"]

InitVideo ==
    /\ history = << FirstImage >>
    /\ storage = << FirstImage >>
    /\ loading = FALSE
    /\ loadingMsg = NoMsg
    /\ tasks = [t \in Tasks |-> IdleTask]
    /\ nextId = 2
    /\ blobs = {}
    /\ aistudio \in BOOLEAN

NextVideo ==
    \/ /\ FirstClick
       /\ \E c \in Configs, i \in 1 .. Len(history) : handleRotate3D(c, i)
    \/ \E t \in Awaiting("gateHasKey"), answer \in {"true", "false", "reject"} :
            HasKeyReturns(t, answer)
    \/ \E t \in Awaiting("gateOpenKey"), answer \in {"resolve", "reject"} :
            OpenKeyReturns(t, answer)
    \/ \E t \in Awaiting("videoCall") : generateVideos(t, Return(PendingOperation))
    \/ \E t \in Awaiting("videoCall"), o \in DoneWithoutUri : generateVideos(t, Return(o))
    \/ \E t \in Awaiting("videoCall"), u \in Uris : generateVideos(t, Return(DoneWithUri(u)))
    \/ \E t \in Awaiting("videoCall"), m \in UpstreamMessages : generateVideos(t, Throw(m))
    \/ \E t \in Awaiting("pollWait") : TimerFires(t)
    \/ \E t \in Awaiting("pollFetch") : getVideosOperation(t, Return(PendingOperation))
    \/ \E t \in Awaiting("pollFetch"), o \in DoneWithoutUri : getVideosOperation(t, Return(o))
    \/ \E t \in Awaiting("pollFetch"), u \in Uris : getVideosOperation(t, Return(DoneWithUri(u)))
    \/ \E t \in Awaiting("pollFetch"), m \in UpstreamMessages : getVideosOperation(t, Throw(m))
    \/ \E t \in Awaiting("download"), status \in HttpStatuses : OnFetch(t, Return(status))
    \/ \E t \in Awaiting("download"), m \in UpstreamMessages : OnFetch(t, Throw(m))
    \/ \E t \in Awaiting("blob") : OnBlob(t, Return(BLOB))
    \/ \E t \in Awaiting("blob"), m \in UpstreamMessages : OnBlob(t, Throw(m))
    \/ \E t \in Awaiting("reauth"), answer \in {"resolve", "reject"} : ReauthReturns(t, answer)

SpecVideo == InitVideo /\ [][NextVideo]_vars

\* ------------------------------------------------------ one user action
\* The application with one image in its history and the user's first
\* action of any kind: a generate submit, an edit submit or a rotate click.
NextAction == NextImage \/ NextVideo

SpecAction == InitVideo /\ [][NextAction]_vars

\* --------------------------------------------------- overlapping actions
\* The application with one image in its history and a user who starts
\* actions while none has finished yet: a second action can start while the
\* first awaits its gate, when the overlay is not shown yet.
OverlapConfigs == { c \in Configs : c.aspectRatio = "1:1" }
NoneFinished == \A t \in Tasks : tasks[t].pc # "done"

NextOverlap ==
    \/ /\ NoneFinished
       /\ \E c \in OverlapConfigs : handleGenerate(c, << "cube" >>, NoImage)
    \/ /\ NoneFinished
       /\ \E c \in OverlapConfigs : handleEdit(c, UPLOADED_IMAGE, << "cube" >>)
    \/ /\ NoneFinished
       /\ \E c \in OverlapConfigs, i \in 1 .. Len(history) : handleRotate3D(c, i)
    \/ \E t \in Awaiting("gateHasKey"), answer \in {"true", "false", "reject"} :
            HasKeyReturns(t, answer)
    \/ \E t \in Awaiting("gateOpenKey"), answer \in {"resolve", "reject"} :
            OpenKeyReturns(t, answer)
    \/ \E t \in Awaiting("reauth"), answer \in {"resolve", "reject"} : ReauthReturns(t, answer)
    \/ \E t \in Awaiting("imageCall"), r \in AppImageResponses :
            generateWireframeImage(t, Return(r))
    \/ \E t \in Awaiting("imageCall"), m \in UpstreamMessages :
            generateWireframeImage(t, Throw(m))
    \/ \E t \in Awaiting("imageCall"), r \in AppImageResponses : editWireframeImage(t, Return(r))
    \/ \E t \in Awaiting("imageCall"), m \in UpstreamMessages : editWireframeImage(t, Throw(m))
    \/ \E t \in Awaiting("videoCall") : generateVideos(t, Return(PendingOperation))
    \/ \E t \in Awaiting("videoCall"), u \in AppUris : generateVideos(t, Return(DoneWithUri(u)))
    \/ \E t \in Awaiting("videoCall"), m \in UpstreamMessages : generateVideos(t, Throw(m))
    \/ \E t \in Awaiting("pollWait") : TimerFires(t)
    \/ \E t \in Awaiting("pollFetch") : getVideosOperation(t, Return(PendingOperation))
    \/ \E t \in Awaiting("pollFetch"), u \in AppUris :
            getVideosOperation(t, Return(DoneWithUri(u)))
    \/ \E t \in Awaiting("pollFetch"), m \in UpstreamMessages : getVideosOperation(t, Throw(m))
    \/ \E t \in Awaiting("download"), status \in HttpStatuses : OnFetch(t, Return(status))
    \/ \E t \in Awaiting("blob") : OnBlob(t, Return(BLOB))

SpecOverlap == InitVideo /\ [][NextOverlap]_vars

\* ------------------------------------------------ generate calls in a row
\* The freshly loaded application and a user who submits the generate form
\* again and again, each time after the earlier invocation has finished.
NextGenerate ==
    \/ /\ OneAtATime
       /\ \E c \in Configs, p \in UserTexts, r \in ReferenceImages : handleGenerate(c, p, r)
    \/ \E t \in Awaiting("gateHasKey"), answer \in {"true", "false", "reject"} :
            HasKeyReturns(t, answer)
    \/ \E t \in Awaiting("gateOpenKey"), answer \in {"resolve", "reject"} :
            OpenKeyReturns(t, answer)
    \/ \E t \in Awaiting("imageCall"), r \in AppImageResponses :
            generateWireframeImage(t, Return(r))
    \/ \E t \in Awaiting("imageCall"), m \in UpstreamMessages :
            generateWireframeImage(t, Throw(m))
    \/ \E t \in Awaiting("reauth"), answer \in {"resolve", "reject"} : ReauthReturns(t, answer)

SpecGenerate == Init /\ [][NextGenerate]_vars

\* ------------------------------------- a rotate action and what overlaps it
\* The application with one image in its history; the user clicks its rotate
\* button once and, while the overlay is not shown, submits the generate
\* form once or purges an image: the history changes while the video request
\* is in flight.  The upstream answers the image request with one candidate
\* of one part and the video request with a handle that is done.
NotYet(kind) == \A t \in Tasks : tasks[t].kind # kind

NextAttach ==
    \/ /\ NotYet("rotate")
       /\ \E c \in OverlapConfigs, i \in 1 .. Len(history) : handleRotate3D(c, i)
    \/ /\ NotYet("generate")
       /\ handleGenerate(DefaultConfig, << "cube" >>, NoImage)
    \/ \E id \in 1 .. MaxAssets : Purge(id)
    \/ \E t \in Awaiting("gateHasKey"), answer \in {"true", "false", "reject"} :
            HasKeyReturns(t, answer)
    \/ \E t \in Awaiting("gateOpenKey"), answer \in {"resolve", "reject"} :
            OpenKeyReturns(t, answer)
    \/ \E t \in Awaiting("imageCall"), r \in ImageResponsesUpTo(1, 1) :
            generateWireframeImage(t, Return(r))
    \/ \E t \in Awaiting("videoCall"), u \in UrisUpTo(1) :
            generateVideos(t, Return(DoneWithUri(u)))
    \/ \E t \in Awaiting("download"), status \in HttpStatuses : OnFetch(t, Return(status))
    \/ \E t \in Awaiting("blob") : OnBlob(t, Return(BLOB))

SpecAttach == InitVideo /\ [][NextAttach]_vars

\* ------------------------------------------------------------- properties
\* C1 (as it holds): whenever the parts of the FIRST candidate of an image
\* response include an inline-data part, generateWireframeImage and
\* editWireframeImage return 'data:image/png;base64,' followed by the data of
\* the first such part of the first candidate, whatever later parts and later
\* candidates hold, and the history holds exactly that one image.
C1_FirstInlinePart ==
    \A t \in Tasks :
        LET task == tasks[t]
            first == task.recv.value.candidates[1]
            parts == first.content.parts
            IsInline(i) == "inlineData" \in DOMAIN parts[i]
        IN  (/\ task.kind \in {"generate", "edit"}
             /\ task.recv.ok
             /\ "candidates" \in DOMAIN task.recv.value
             /\ Len(task.recv.value.candidates) > 0
             /\ "content" \in DOMAIN first
             /\ "parts" \in DOMAIN first.content
             /\ \E i \in DOMAIN parts : IsInline(i))
            => /\ task.outcome.ok
               /\ \E i \in DOMAIN parts :
                    /\ IsInline(i)
                    /\ \A j \in 1 .. i - 1 : ~IsInline(j)
                    /\ task.outcome.value
                         = << "data:image/png;base64", "," >> \o parts[i].inlineData.data
               /\ Len(history) = 1
               /\ history[1].url = task.outcome.value

\* C1, reached: two candidates, the first with a text part and then an
\* inline part, and the call returned the second part of the first candidate.
C1_Witness ==
    \E t \in Tasks :
        /\ tasks[t].pc = "done"
        /\ tasks[t].outcome.ok
        /\ Len(tasks[t].recv.value.candidates) = 2
        /\ "text" \in DOMAIN tasks[t].recv.value.candidates[1].content.parts[1]
        /\ tasks[t].outcome.value = << "data:image/png;base64", ",", "b64_1_2" >>

\* C1 as stated: whenever SOME candidate of an image response has an
\* inline-data part, the call returns the first inline-data part of the first
\* candidate.
C1_AnyCandidateInline ==
    \A t \in Tasks :
        LET task == tasks[t]
            candidates == task.recv.value.candidates
            parts == candidates[1].content.parts
            HasInline(c) ==
                /\ "content" \in DOMAIN c
                /\ "parts" \in DOMAIN c.content
                /\ \E i \in DOMAIN c.content.parts : "inlineData" \in DOMAIN c.content.parts[i]
        IN  (/\ task.kind \in {"generate", "edit"}
             /\ task.recv.ok
             /\ "candidates" \in DOMAIN task.recv.value
             /\ \E c \in DOMAIN candidates : HasInline(candidates[c]))
            => /\ task.outcome.ok
               /\ \E i \in DOMAIN parts :
                    /\ "inlineData" \in DOMAIN parts[i]
                    /\ \A j \in 1 .. i - 1 : "inlineData" \notin DOMAIN parts[j]
                    /\ task.outcome.value
                         = << "data:image/png;base64", "," >> \o parts[i].inlineData.data

\* C2: when an image response has zero candidates or no candidates field,
\* the create (edit) operation fails with "No candidates generated." ("No
\* candidates generated for edit.") and the history gains no entry.
C2_NoCandidates ==
    \A t \in Tasks :
        LET task == tasks[t]
            response == task.recv.value
        IN  (/\ task.kind \in {"generate", "edit"}
             /\ task.recv.ok
             /\ ("candidates" \notin DOMAIN response \/ Len(response.candidates) = 0))
            => /\ task.outcome.settled
               /\ ~task.outcome.ok
               /\ task.outcome.error =
                    IF task.kind = "generate" THEN << "No candidates generated." >>
                    ELSE << "No candidates generated for edit." >>
               /\ history = << >>
               /\ nextId = 1

\* C2, reached: a create call answered with an empty candidate list.
C2_Witness ==
    \E t \in Tasks :
        /\ tasks[t].pc = "done"
        /\ tasks[t].kind = "generate"
        /\ tasks[t].recv.ok
        /\ "candidates" \in DOMAIN tasks[t].recv.value
        /\ Len(tasks[t].recv.value.candidates) = 0
        /\ tasks[t].outcome.error = << "No candidates generated." >>
        /\ history = << >>

\* C3 as stated: when the first candidate of an image response exists and
\* none of its parts carries inline data (all parts are text, or the parts
\* are empty or missing), the operation fails with "No image data returned in
\* parts." ("No edited image data returned."), whatever later candidates
\* hold, and the history gains no entry.
C3_NoImageData ==
    \A t \in Tasks :
        LET task == tasks[t]
            first == task.recv.value.candidates[1]
            FirstHasInline ==
                /\ "content" \in DOMAIN first
                /\ "parts" \in DOMAIN first.content
                /\ \E i \in DOMAIN first.content.parts :
                        "inlineData" \in DOMAIN first.content.parts[i]
        IN  (/\ task.kind \in {"generate", "edit"}
             /\ task.recv.ok
             /\ "candidates" \in DOMAIN task.recv.value
             /\ Len(task.recv.value.candidates) > 0
             /\ ~FirstHasInline)
            => /\ task.outcome.settled
               /\ ~task.outcome.ok
               /\ task.outcome.error =
                    IF task.kind = "generate" THEN << "No image data returned in parts." >>
                    ELSE << "No edited image data returned." >>
               /\ history = << >>

\* C3, reached: the first candidate holds only a text part, the second an
\* inline part, and the call failed with the no-image-data error.
C3_Witness ==
    \E t \in Tasks :
        /\ tasks[t].pc = "done"
        /\ tasks[t].recv.ok
        /\ "candidates" \in DOMAIN tasks[t].recv.value
        /\ Len(tasks[t].recv.value.candidates) = 2
        /\ "content" \in DOMAIN tasks[t].recv.value.candidates[1]
        /\ "parts" \in DOMAIN tasks[t].recv.value.candidates[1].content
        /\ tasks[t].outcome.error = << "No image data returned in parts." >>
        /\ history = << >>

\* C4: in generateRotatingVideo every status re-fetch follows its own
\* 10-second wait, and the re-fetches issued equal the handles observed with
\* done = false (one more was observed while a wait is still running); a
\* handle done at once means no wait and no re-fetch.
C4_PollLoop ==
    \A t \in Tasks :
        LET task == tasks[t]
        IN  task.kind = "rotate"
            => /\ task.polls = task.waits
               /\ task.slept = 10000 * task.waits
               /\ task.pending = IF task.pc = "pollWait" THEN task.polls + 1 ELSE task.polls

\* C4, reached: two handles were not done, the third was, and the download
\* started after two waits and two re-fetches.
C4_Witness ==
    \E t \in Tasks :
        /\ tasks[t].pc = "download"
        /\ tasks[t].pending = 2
        /\ tasks[t].polls = 2
        /\ tasks[t].waits = 2
        /\ tasks[t].slept = 20000

\* C5: the aspect ratio of the outgoing video-create call is '9:16' when
\* '9:16' is configured and '16:9' for every other configured ratio.
C5_VideoAspectRatio ==
    \A t \in Tasks :
        LET task == tasks[t]
        IN  (task.kind = "rotate" /\ task.pc = "videoCall")
            => /\ task.request.config.aspectRatio \in {"16:9", "9:16"}
               /\ task.cfg.aspectRatio = "9:16" => task.request.config.aspectRatio = "9:16"
               /\ task.cfg.aspectRatio # "9:16" => task.request.config.aspectRatio = "16:9"

\* C5, reached: a video request under the configured ratio '3:4' went out
\* with '16:9'.
C5_Witness ==
    \E t \in Tasks :
        /\ tasks[t].pc = "videoCall"
        /\ tasks[t].cfg.aspectRatio = "3:4"
        /\ tasks[t].request.config.aspectRatio = "16:9"

\* C6: the generation options of a create-image request hold the key
\* imageSize if and only if the model is 'gemini-3-pro-image-preview'; for
\* any other model the options are exactly the aspect ratio.
C6_ImageSizeKey ==
    \A t \in Tasks :
        LET task == tasks[t]
            options == task.request.config.imageConfig
        IN  (task.kind = "generate" /\ task.pc = "imageCall")
            => /\ "imageSize" \in DOMAIN options
                    <=> task.cfg.model = "gemini-3-pro-image-preview"
               /\ "imageSize" \in DOMAIN options => options.imageSize = task.cfg.quality
               /\ task.cfg.model # "gemini-3-pro-image-preview"
                    => options = [aspectRatio |-> task.cfg.aspectRatio]

\* C6, reached: a create-image request for 'gemini-2.5-flash-image' whose
\* options hold the aspect ratio and nothing else.
C6_Witness ==
    \E t \in Tasks :
        /\ tasks[t].kind = "generate"
        /\ tasks[t].pc = "imageCall"
        /\ tasks[t].cfg.model = "gemini-2.5-flash-image"
        /\ DOMAIN tasks[t].request.config.imageConfig = {"aspectRatio"}

\* C7 as stated: the outgoing request of generateWireframeImage and of
\* editWireframeImage targets the configured model and carries the
\* configured aspect ratio.
C7_RequestCarriesConfig ==
    \A t \in Tasks :
        LET task == tasks[t]
        IN  (task.kind \in {"generate", "edit"} /\ task.pc = "imageCall")
            => /\ task.request.model = task.cfg.model
               /\ "config" \in DOMAIN task.request
               /\ "imageConfig" \in DOMAIN task.request.config
               /\ task.request.config.imageConfig.aspectRatio = task.cfg.aspectRatio

\* C8: the download is fetched from the URI of the finished operation
\* followed by '&' when the URI holds a '?' and by '?' otherwise, then
\* 'key=' and the credential.
C8_FetchUrl ==
    \A t \in Tasks :
        LET task == tasks[t]
            uri == task.recv.value.response.generatedVideos[1].video.uri
        IN  (task.kind = "rotate" /\ task.pc = "download")
            => task.fetchUrl
                 = uri \o << (IF \E i \in DOMAIN uri : uri[i] = "?" THEN "&" ELSE "?"), "key=" >>
                       \o task.apiKey

\* C8, reached: 'https://host/video?token=abc' with the credential K is
\* fetched as 'https://host/video?token=abc&key=K'.
C8_Witness ==
    \E t \in Tasks :
        /\ tasks[t].pc = "download"
        /\ tasks[t].recv.value.response.generatedVideos[1].video.uri
             = << "https://host/video", "?", "token=abc" >>
        /\ tasks[t].apiKey = << "K" >>
        /\ tasks[t].fetchUrl = << "https://host/video", "?", "token=abc", "&", "key=", "K" >>

\* C9: when the download fetch answers with a status outside 200..299,
\* generateRotatingVideo fails with "Video download failed with status: <status>"
\* and the invocation ends there: no blob URL is created, no further status
\* re-fetch is issued, and the history is left as it was, its image without
\* a videoUrl.
C9_DownloadFailed ==
    [][\A t \in Tasks :
          (/\ tasks[t].pc = "download"
           /\ tasks'[t].pc # "download"
           /\ tasks'[t].recv.ok
           /\ (tasks'[t].recv.value < 200 \/ tasks'[t].recv.value > 299))
          => /\ tasks'[t].pc = "done"
             /\ ~tasks'[t].outcome.ok
             /\ tasks'[t].outcome.error
                  = << "Video download failed with status: ", ToString(tasks'[t].recv.value) >>
             /\ blobs' = blobs
             /\ tasks'[t].polls = tasks[t].polls
             /\ history' = history
             /\ \A k \in DOMAIN history' :
                    history'[k].id = tasks[t].imageId => history'[k].videoUrl = << >>]_vars

\* C9, reached: the download answered 404 and the request ended with the
\* download error, no blob and no videoUrl.
C9_Witness ==
    \E t \in Tasks :
        /\ tasks[t].pc = "done"
        /\ tasks[t].kind = "rotate"
        /\ tasks[t].fetches = 1
        /\ tasks[t].outcome.error = << "Video download failed with status: ", "404" >>
        /\ blobs = {}
        /\ history[1].videoUrl = << >>

\* C10: when a handle arrives with done = true and no download URI (no
\* response, no generatedVideos, an empty list, no video, no uri or an empty
\* uri), generateRotatingVideo fails with "Video generation completed but no
\* URI returned." and no download fetch is issued.
C10_NoUriReturned ==
    [][\A t \in Tasks :
          LET operation == tasks'[t].recv.value
              HasUri ==
                  /\ "response" \in DOMAIN operation
                  /\ "generatedVideos" \in DOMAIN operation.response
                  /\ Len(operation.response.generatedVideos) > 0
                  /\ "video" \in DOMAIN operation.response.generatedVideos[1]
                  /\ "uri" \in DOMAIN operation.response.generatedVideos[1].video
                  /\ operation.response.generatedVideos[1].video.uri # << >>
          IN  (/\ tasks[t].pc \in {"videoCall", "pollFetch"}
               /\ tasks'[t].pc # tasks[t].pc
               /\ tasks'[t].recv.ok
               /\ operation.done
               /\ ~HasUri)
              => /\ tasks'[t].pc = "done"
                 /\ ~tasks'[t].outcome.ok
                 /\ tasks'[t].outcome.error
                      = << "Video generation completed but no URI returned." >>
                 /\ tasks'[t].fetches = 0
                 /\ tasks'[t].fetchUrl = << >>]_vars

\* C10, reached: after one re-fetch the operation was done with an empty
\* generatedVideos list; the request failed and no fetch was issued.
C10_Witness ==
    \E t \in Tasks :
        /\ tasks[t].pc = "done"
        /\ tasks[t].kind = "rotate"
        /\ tasks[t].polls = 1
        /\ tasks[t].fetches = 0
        /\ tasks[t].outcome.error = << "Video generation completed but no URI returned." >>

\* C11 (as it holds): every user action issues at most one generation
\* submit, and when the request fails the user is shown one message and the
\* history is left as it was.  The message carries the failure text for a
\* generate or rotate failure whose text does not hold "Requested entity was
\* not found"; such a failure shows a fixed API-key message, and an edit
\* failure shows "Edit failed." whatever the failure text.
C11_NoRetryOneMessage ==
    \A t \in Tasks :
        LET task == tasks[t]
            NotFound == \E i \in DOMAIN task.outcome.error :
                            task.outcome.error[i] = "Requested entity was not found"
        IN  /\ task.submits <= 1
            /\ (task.outcome.settled /\ ~task.outcome.ok)
               => /\ task.submits = 1
                  /\ history = << FirstImage >>
                  /\ task.alert =
                       IF task.kind = "edit" THEN << "Edit failed." >>
                       ELSE IF NotFound
                       THEN IF task.kind = "generate"
                            THEN << "API key error. Please ensure you have selected a valid API key from a paid GCP project." >>
                            ELSE << "API key error. Please select a valid paid project key." >>
                       ELSE (IF task.kind = "generate" THEN << "Generation failed: " >>
                             ELSE << "3D Rotation failed: " >>) \o task.outcome.error

\* C11, reached: a rotate request failed with the upstream's 503 text; the
\* user was shown that text and the history is the one it was.
C11_Witness ==
    \E t \in Tasks :
        /\ tasks[t].pc = "done"
        /\ tasks[t].kind = "rotate"
        /\ tasks[t].submits = 1
        /\ tasks[t].outcome.error = << "got status: 503. The model is overloaded." >>
        /\ tasks[t].alert
             = << "3D Rotation failed: ", "got status: 503. The model is overloaded." >>
        /\ history = << FirstImage >>

\* C11 as stated: at most one submit per action and, when the request
\* fails, a message carrying the failure text and an unchanged history.
C11_MessageCarriesFailureText ==
    \A t \in Tasks :
        LET task == tasks[t]
            failure == task.outcome.error
        IN  /\ task.submits <= 1
            /\ (task.outcome.settled /\ ~task.outcome.ok)
               => /\ history = << FirstImage >>
                  /\ \E i \in 0 .. Len(task.alert) - Len(failure) :
                        SubSeq(task.alert, i + 1, i + Len(failure)) = failure

\* C12 as stated: when the request of a generate, edit or rotate action
\* fails with a text that holds "Requested entity was not found" and the
\* host's key selection exists, the step that receives the failure opens the
\* key selection once more, once, the request is not submitted again, and
\* the return of the key selection ends the action.
C12_ReauthOnEntityNotFound ==
    [][\A t \in Tasks :
          LET before == tasks[t]
              after == tasks'[t]
              NotFound == \E i \in DOMAIN after.outcome.error :
                              after.outcome.error[i] = "Requested entity was not found"
          IN  /\ (~before.outcome.settled /\ after.outcome.settled
                                          /\ ~after.outcome.ok /\ NotFound /\ aistudio)
                 => /\ after.pc = "reauth"
                    /\ after.openKeyCalls = before.openKeyCalls + 1
                    /\ after.submits = 1
              /\ before.pc = "reauth"
                 => /\ after.pc = "done"
                    /\ after.openKeyCalls = before.openKeyCalls
                    /\ after.submits = 1
      ]_vars

\* C12, the case: an edit request failed with the entity-not-found text
\* while the host's key selection exists, and the action is over.
C12_Witness ==
    \E t \in Tasks :
        /\ aistudio
        /\ tasks[t].pc = "done"
        /\ tasks[t].kind = "edit"
        /\ tasks[t].outcome.error
             = << "got status: 404. ", "Requested entity was not found", "." >>
        /\ tasks[t].openKeyCalls = 0
        /\ tasks[t].alert = << "Edit failed." >>

\* C13: the gate never ends the action.  A generate action for the pro
\* image model and a rotate action go from the click to the gate, or,
\* without the host's capability, straight to the submit; every answer of
\* hasSelectedApiKey (true, false, a rejection) leads to the key selection or
\* to the submit; every answer of openSelectKey (resolved, rejected) leads to
\* the submit, with hasSelectedApiKey not asked again; the request is
\* submitted once and never before the gate is left.
C13_GateNeverFails ==
    [][\A t \in Tasks :
          LET before == tasks[t]
              after == tasks'[t]
              gated == after.kind = "rotate"
                          \/ (after.kind = "generate"
                                /\ after.cfg.model = "gemini-3-pro-image-preview")
              submitted == /\ after.pc = (IF after.kind = "rotate" THEN "videoCall"
                                                                   ELSE "imageCall")
                           /\ after.submits = 1
                           /\ ~after.outcome.settled
                           /\ after.alert = << >>
                           /\ loading'
          IN  /\ (before.pc \in {"idle", "done"} /\ after.pc \notin {"idle", "done"} /\ gated)
                 => IF aistudio
                    THEN after.pc = "gateHasKey" /\ after.submits = 0
                    ELSE submitted /\ after.hasKeyCalls = 0 /\ after.openKeyCalls = 0
              /\ (before.pc = "gateHasKey" /\ after # before)
                 => \/ after.pc = "gateOpenKey" /\ after.submits = 0
                    \/ submitted
              /\ (before.pc = "gateOpenKey" /\ after # before)
                 => submitted /\ after.hasKeyCalls = before.hasKeyCalls
              /\ after.submits <= 1
      ]_vars

\* C13, reached: a generate action for the pro image model asked
\* hasSelectedApiKey once, opened the key selection once, and awaits the
\* generation request it submitted once.
C13_Witness ==
    \E t \in Tasks :
        /\ tasks[t].kind = "generate"
        /\ tasks[t].cfg.model = "gemini-3-pro-image-preview"
        /\ tasks[t].pc = "imageCall"
        /\ tasks[t].hasKeyCalls = 1
        /\ tasks[t].openKeyCalls = 1
        /\ tasks[t].submits = 1

\* C14: with the host's capability present, a request that is awaited was
\* preceded by one hasSelectedApiKey query when its model is the pro image
\* model or the video model, and by none otherwise (the flash image model
\* of a generate request, and every edit request); the key selection is
\* opened in the gate exactly when that query answered false, not when it
\* answered true or rejected, and never without a query; hasSelectedApiKey
\* is asked once at most, so not again after the key selection returned.
\* Without the capability nothing is asked and nothing is opened.
C14_QueryIffPaidModel ==
    [][\A t \in Tasks :
          LET before == tasks[t]
              after == tasks'[t]
              paid == after.request.model \in { "gemini-3-pro-image-preview",
                                                "veo-3.1-fast-generate-preview" }
          IN  /\ after.hasKeyCalls <= 1
              /\ after.pc \in {"imageCall", "videoCall"}
                 => /\ after.hasKeyCalls = (IF aistudio /\ paid THEN 1 ELSE 0)
                    /\ after.openKeyCalls <= after.hasKeyCalls
              /\ \A answer \in {"true", "false", "reject"} :
                    HasKeyReturns(t, answer)
                    => IF answer = "false"
                       THEN after.pc = "gateOpenKey" /\ after.openKeyCalls = 1
                       ELSE after.pc # "gateOpenKey" /\ after.openKeyCalls = 0
              /\ before.pc = "gateOpenKey" => after.hasKeyCalls = before.hasKeyCalls
      ]_vars

\* C14, reached: a rotate action asked hasSelectedApiKey once, opened the
\* key selection once in the gate, and awaits its request for the video
\* model.
C14_Witness ==
    \E t \in Tasks :
        /\ aistudio
        /\ tasks[t].kind = "rotate"
        /\ tasks[t].pc = "videoCall"
        /\ tasks[t].request.model = "veo-3.1-fast-generate-preview"
        /\ tasks[t].hasKeyCalls = 1
        /\ tasks[t].openKeyCalls = 1

C16_PromptVerbatim ==
    \A t \in Tasks :
        (tasks[t].pc = "imageCall" /\ tasks[t].kind = "generate" /\ tasks[t].image = << >>)
        => tasks[t].request.contents.parts
             = << [text |->
                    << "INSTRUCTION: Create a brand new 3D wireframe mesh schematic of the following object: \"" >>
                    \o tasks[t].text
                    \o << "\". THE TEXT DESCRIPTION ABOVE IS THE PRIMARY SPECIFICATION. The final output must be a unique geometric vector-style rendering." >>
                    \o << "CORE AESTHETIC REQUIREMENTS:",
                          "1. Geometric Wireframe Mesh",
                          "2. Color Palette",
                          "3. Retro-Futuristic Style",
                          "4. Background",
                          "5. No Interface Elements" >>] >>

\* C16, reached: after an earlier call for "cube" put its image in the
\* history, a call for " cube" with no reference image awaits its request,
\* whose text quotes " cube" with its leading blank.
C16_Witness ==
    \E t \in Tasks :
        /\ tasks[t].pc = "imageCall"
        /\ tasks[t].kind = "generate"
        /\ tasks[t].image = << >>
        /\ tasks[t].text = << " ", "cube" >>
        /\ Len(history) = 1
        /\ history[1].type = "generation"
        /\ history[1].prompt = << "cube" >>
        /\ tasks[t].request.contents.parts[1].text[2] = " "
        /\ tasks[t].request.contents.parts[1].text[3] = "cube"

\* C17 as stated: every object URL created for a video and not released is
\* the videoUrl of an item of the history, so that the URL of a purged item
\* has been released.
C17_BlobsReleased ==
    blobs \subseteq { history[k].videoUrl : k \in 1 .. Len(history) }

\* C17, the case: an object URL was created for a video, the item that
\* carried it was purged and the history is empty, yet the URL is still
\* unreleased.
C17_Witness ==
    /\ history = << >>
    /\ blobs = { << "blob:", "1" >> }
    /\ \A t \in Tasks : tasks[t].pc \in {"idle", "done"}

\* C18: the steps of one video request come in the order submit, then
\* (wait, status fetch) pairs, then the download fetch, then blob().  The
\* download fetch is issued only by the step that received a handle that is
\* done, a status fetch only after a wait that followed a handle that is
\* not done, and neither wait nor status fetch follows the download fetch;
\* the history changes only on the step where blob() resolved, after the
\* one download fetch answered with an ok status.
C18_StepsInOrder ==
    [][\A t \in Tasks :
          LET before == tasks[t]
              after == tasks'[t]
              over == {"reauth", "done"}
          IN  (after # before /\ after.kind = "rotate")
              => /\ before.pc = "videoCall" => after.pc \in {"pollWait", "download"} \cup over
                 /\ before.pc = "pollWait" => after.pc = "pollFetch"
                 /\ before.pc = "pollFetch" => after.pc \in {"pollWait", "download"} \cup over
                 /\ before.pc = "download" => after.pc \in {"blob"} \cup over
                 /\ before.pc = "blob" => after.pc \in over
                 /\ after.pc \in {"pollWait", "pollFetch", "download", "blob"}
                    => after.submits = 1
                 /\ after.fetches # before.fetches
                    => /\ before.pc \in {"videoCall", "pollFetch"}
                       /\ after.pc = "download"
                       /\ after.fetches = 1
                       /\ after.recv.ok /\ after.recv.value.done
                 /\ after.polls # before.polls
                    => /\ before.pc = "pollWait"
                       /\ before.recv.ok /\ ~before.recv.value.done
                       /\ after.fetches = 0
                 /\ history' # history
                    => /\ before.pc = "blob"
                       /\ before.recv.ok /\ ResponseOk(before.recv.value)
                       /\ after.recv.ok
                       /\ after.fetches = 1
                       /\ after.outcome.ok
                       /\ history' = Attach(history, after.imageId, after.outcome.value)
      ]_vars

\* C18, reached: a request that saw a handle that is not done, waited,
\* fetched the status once, downloaded once and got its blob has put the
\* object URL on the image.
C18_Witness ==
    \E t \in Tasks :
        /\ tasks[t].pc = "done"
        /\ tasks[t].submits = 1
        /\ tasks[t].pending = 1
        /\ tasks[t].waits = 1
        /\ tasks[t].polls = 1
        /\ tasks[t].fetches = 1
        /\ tasks[t].outcome.ok
        /\ history[1].videoUrl = tasks[t].outcome.value
        /\ history[1].videoUrl # << >>

\* C19 as stated: once the effect that follows a change of the history has
\* run, the list stored under 'wireframe_history' is the history in memory.
C19_StorageIsHistory ==
    storage = history

\* C19, the case: the user purged the only item; the history is empty and
\* the stored list still holds the item.
C19_Witness ==
    /\ history = << >>
    /\ Len(storage) = 1
    /\ \A t \in Tasks : tasks[t].pc \in {"idle", "done"}

\* C20 as stated: loading is true in every state in which the generation
\* request of some generate, edit or rotate action is in flight, submitted
\* and not settled yet, also when two invocations overlap.
C20_LoadingWhileInFlight ==
    (\E t \in Tasks :
        tasks[t].pc \in {"imageCall", "videoCall", "pollWait", "pollFetch", "download", "blob"})
    => loading

\* C20, the case: a rotate action and a generate action overlapped; the
\* generate action is over and has cleared loading while the video request
\* of the rotate action is still awaited.
C20_Witness ==
    \E t \in Tasks, u \in Tasks :
        /\ tasks[t].kind = "rotate"
        /\ tasks[t].pc = "videoCall"
        /\ tasks[u].kind = "generate"
        /\ tasks[u].pc = "done"
        /\ tasks[u].outcome.ok
        /\ ~loading

\* C21: on the step where the video request made for the image with id X
\* completes successfully, the history keeps its length and its order, the
\* entry whose id is X, if there is one, gains the object URL as its
\* videoUrl and is otherwise as it was, and every other entry is as it was:
\* when X was purged meanwhile it is not put back, and an entry added
\* meanwhile is neither removed nor overwritten.
C21_OnlyVideoUrlGained ==
    [][\A t \in Tasks :
          LET before == tasks[t]
              after == tasks'[t]
          IN  (before.pc = "blob" /\ after.pc = "done" /\ after.outcome.ok)
              => /\ after.outcome.value # << >>
                 /\ Len(history') = Len(history)
                 /\ \A k \in 1 .. Len(history) :
                       IF history[k].id = before.imageId
                       THEN /\ history'[k].videoUrl = after.outcome.value
                            /\ history'[k].id = history[k].id
                            /\ history'[k].url = history[k].url
                            /\ history'[k].prompt = history[k].prompt
                            /\ history'[k].type = history[k].type
                       ELSE history'[k] = history[k]
      ]_vars

\* C21, reached: the video request made for image 1 completed successfully
\* after image 1 was purged and image 2 was generated; the history is image
\* 2 alone, with no videoUrl.
C21_Witness ==
    \E t \in Tasks :
        /\ tasks[t].kind = "rotate"
        /\ tasks[t].imageId = 1
        /\ tasks[t].pc = "done"
        /\ tasks[t].outcome.ok
        /\ blobs = { tasks[t].outcome.value }
        /\ Len(history) = 1
        /\ history[1].id = 2
        /\ history[1].type = "generation"
        /\ history[1].videoUrl = << >>

====
